---- MODULE Spec2Model ----
(***************************************************************************)
(* msgmux: a reflection-based message multiplexer (src/mux.go, lines 1 to  *)
(* 178).  The model keeps the part of Go's reflect package the code reads: *)
(* a type's Kind, Name, method set, and, for a func type, its parameter    *)
(* and result types; reflect.TypeOf(nil) is the nil Type, and a method     *)
(* call on it is a nil-pointer panic; reflect.Value.Call panics on a zero  *)
(* Value argument and on an argument not assignable to its parameter.      *)
(* A panic is an outcome of the call; the caller may recover and go on     *)
(* using the mux (the tests do, with require.Panics).                      *)
(***************************************************************************)
EXTENDS Naturals, Sequences, FiniteSets, TLC

\* Distinct payloads per message struct type, distinct handler error values.
NumPayloads == 2
NumErrors == 2

(***************************************************************************)
(* reflect.Type                                                            *)
(***************************************************************************)
\* kind: Kind(); name: Name(); str: String(), which tells the types apart;
\* in, out: a func type's parameter and result types.
MkType(k, n, s) == [kind |-> k, name |-> n, str |-> s, in |-> <<>>, out |-> <<>>]

\* reflect.TypeOf(nil): the nil reflect.Type.
NilType == MkType("invalid", "", "<nil>")

FuncOf(ins, outs) ==
    [kind |-> "func", name |-> "", str |-> "func", in |-> ins, out |-> outs]

ContextMethods == {"Deadline", "Done", "Err", "Value"}

\* Message struct types (the README's and the tests').
OrderCompleted == MkType("struct", "OrderCompleted", "app.OrderCompleted")
CancelOrder == MkType("struct", "CancelOrder", "app.CancelOrder")
ShipOrder == MkType("struct", "ShipOrder", "app.ShipOrder")
StructTypes == {OrderCompleted, CancelOrder, ShipOrder}

\* Non-struct types.
StringType == MkType("string", "string", "string")
IntType == MkType("int", "int", "int")
PtrOrderCompleted == MkType("ptr", "", "*app.OrderCompleted")
SliceOrderCompleted == MkType("slice", "", "[]app.OrderCompleted")

\* Interface types.
ContextType == MkType("interface", "Context", "context.Context")
ErrorType == MkType("interface", "error", "error")
AnyType == MkType("interface", "", "interface {}")
StringerType == MkType("interface", "Stringer", "fmt.Stringer")
\* An interface with context.Context's methods under another name.
ScopeType == MkType("interface", "Scope", "app.Scope")
\* An interface embedding context.Context and adding a method.
TxContextType ==
    MkType("interface", "TxContext", "app.TxContext")
\* An interface named Context that lacks context.Context's methods.
AppContextType == MkType("interface", "Context", "app.Context")
\* A user-declared interface named error (the predeclared name shadowed).
AppErrorType == MkType("interface", "error", "app.error")

\* Concrete types of context values.
BackgroundCtxType ==
    MkType("struct", "backgroundCtx", "context.backgroundCtx")
CancelCtxType ==
    MkType("ptr", "", "*context.cancelCtx")
TxCtxImplType == MkType("ptr", "", "*app.txCtx")

\* Concrete types of the values handlers return.
ErrorStringType == MkType("ptr", "", "*errors.errorString")
CodeOnlyType == MkType("ptr", "", "*app.codeOnly")
CodedErrorType == MkType("ptr", "", "*app.codedError")

\* The method set of each type.
MethodSet(t) ==
    CASE t \in {ContextType, ScopeType} -> ContextMethods
      [] t = TxContextType -> ContextMethods \cup {"Tx"}
      [] t = TxCtxImplType -> ContextMethods \cup {"Tx"}
      [] t \in {BackgroundCtxType, CancelCtxType} -> ContextMethods \cup {"String"}
      [] t = AppContextType -> {"Done"}
      [] t = ErrorType -> {"Error"}
      [] t = ErrorStringType -> {"Error"}
      [] t = StringerType -> {"String"}
      [] t = AppErrorType -> {"Code"}
      [] t = CodeOnlyType -> {"Code"}
      [] t = CodedErrorType -> {"Code", "Error"}
      [] OTHER -> {}

\* reflect.Type.Implements(u), u an interface type.
Implements(t, u) == MethodSet(u) \subseteq MethodSet(t)

\* reflect.Type.AssignableTo(u): identical types, or u an interface t implements.
AssignableTo(t, u) == t = u \/ (u.kind = "interface" /\ Implements(t, u))

(***************************************************************************)
(* Values                                                                  *)
(***************************************************************************)
MkValue(t, i) == [type |-> t, id |-> i]

\* The nil interface value (a nil Message, MessageHandler, Context or error).
NilValue == MkValue(NilType, 0)

TypeOf(v) == v.type

Background == MkValue(BackgroundCtxType, 0)

Contexts ==
    {Background, MkValue(TxCtxImplType, 0), NilValue}

Payloads == 1..NumPayloads

StructMessages == {MkValue(t, p) : t \in StructTypes, p \in Payloads}

NonStructMessages ==
    {MkValue(StringType, 0), MkValue(PtrOrderCompleted, 1),
     MkValue(SliceOrderCompleted, 0), NilValue}

Messages == StructMessages \cup NonStructMessages

\* What a handler may return: nil, or a non-nil value assignable to its result type.
ReturnValues ==
    {MkValue(ErrorStringType, e) : e \in 1..NumErrors}
        \cup {MkValue(CodeOnlyType, 0), MkValue(CodedErrorType, 0)}

Returns(fn) ==
    IF TypeOf(fn).kind = "func" /\ Len(TypeOf(fn).out) = 1
    THEN {NilValue} \cup {v \in ReturnValues : AssignableTo(TypeOf(v), TypeOf(fn).out[1])}
    ELSE {NilValue}

(***************************************************************************)
(* Candidate handlers passed to Handle                                     *)
(***************************************************************************)
\* Identities of distinct non-nil function values of one signature.
FuncIds == {1, 2}

\* A nil function value of a func type: var fn func(OrderCompleted) error.
IsNilFunc(fn) == TypeOf(fn).kind = "func" /\ fn.id = 0

WellFormedSignatures ==
    {FuncOf(<<t>>, <<ErrorType>>) : t \in StructTypes}
        \cup {FuncOf(<<ContextType, OrderCompleted>>, <<ErrorType>>)}

\* Signatures outside the documented two forms.
OtherSignatures ==
    {FuncOf(<<>>, <<>>),
     FuncOf(<<>>, <<ErrorType>>),
     FuncOf(<<ContextType, OrderCompleted, OrderCompleted>>, <<ErrorType>>),
     FuncOf(<<StringType>>, <<ErrorType>>),
     FuncOf(<<PtrOrderCompleted>>, <<ErrorType>>),
     FuncOf(<<SliceOrderCompleted>>, <<ErrorType>>),
     FuncOf(<<ContextType, StringType>>, <<ErrorType>>),
     FuncOf(<<ContextType, PtrOrderCompleted>>, <<ErrorType>>),
     FuncOf(<<OrderCompleted>>, <<>>),
     FuncOf(<<ContextType, OrderCompleted>>, <<>>),
     FuncOf(<<OrderCompleted>>, <<ErrorType, ErrorType>>),
     FuncOf(<<OrderCompleted>>, <<StringType>>),
     FuncOf(<<OrderCompleted>>, <<StringerType>>),
     FuncOf(<<OrderCompleted>>, <<AnyType>>),
     FuncOf(<<OrderCompleted>>, <<AppErrorType>>),
     FuncOf(<<ScopeType, OrderCompleted>>, <<ErrorType>>),
     FuncOf(<<TxContextType, OrderCompleted>>, <<ErrorType>>),
     FuncOf(<<AppContextType, OrderCompleted>>, <<ErrorType>>),
     FuncOf(<<AnyType, OrderCompleted>>, <<ErrorType>>),
     FuncOf(<<CancelCtxType, OrderCompleted>>, <<ErrorType>>),
     FuncOf(<<StringType, OrderCompleted>>, <<ErrorType>>)}

\* Two function values of each OrderCompleted form, one of the others.
WellFormedCandidates ==
    {MkValue(t, i) : t \in WellFormedSignatures, i \in FuncIds}
        \ {MkValue(FuncOf(<<t>>, <<ErrorType>>), 2) : t \in {CancelOrder, ShipOrder}}

Candidates ==
    WellFormedCandidates
        \cup {MkValue(t, 1) : t \in OtherSignatures}
        \cup {MkValue(FuncOf(<<OrderCompleted>>, <<ErrorType>>), 0)}
        \cup {MkValue(StringType, 0), MkValue(IntType, 123), NilValue}

(***************************************************************************)
(* Results of calls                                                        *)
(***************************************************************************)
\* kind: "nil" (a nil error), "error" (a non-nil error returned), "panic".
\* origin: who made the value; code: which message; detail: its %v argument
\* (a Kind or a Name; a count is left as the name of what is counted);
\* val: the error value itself when a handler made it.
Outcome(k, o, c, d, v) == [kind |-> k, origin |-> o, code |-> c, detail |-> d, val |-> v]

Success == Outcome("nil", "", "", "", NilValue)

\* fmt.Errorf("msgmux: ..."), returned.
Errorf(c, d) == Outcome("error", "msgmux", c, d, NilValue)

Panic(o, c, d) == Outcome("panic", o, c, d, NilValue)

\* A method call on the nil reflect.Type.
NilDereference == Panic("runtime", "nil pointer dereference", "")

(***************************************************************************)
(* validateHandler                                                         *)
(***************************************************************************)
\* Variant: the context parameter recognised by its type's name.
validateInputs_ByName(fnType) ==
    IF Len(fnType.in) = 1 THEN
        IF fnType.in[1].kind # "struct"
        THEN Errorf("input parameter should be a struct", fnType.in[1].kind)
        ELSE Success
    ELSE IF Len(fnType.in) = 2 THEN
        IF fnType.in[1].kind # "interface"
        THEN Errorf("1st input parameter should be an context.Context", fnType.in[1].kind)
        ELSE IF fnType.in[1].name # "Context"
        THEN Errorf("1st input parameter should be context.Context", fnType.in[1].kind)
        ELSE IF fnType.in[2].kind # "struct"
        THEN Errorf("2nd input parameter should be a struct", fnType.in[2].kind)
        ELSE Success
    ELSE Errorf("should have 1 or 2 input parameters", "NumIn")

validateInputs(fnType) ==
    IF Len(fnType.in) = 1 THEN
        IF fnType.in[1].kind # "struct"
        THEN Errorf("input parameter should be a struct", fnType.in[1].kind)
        ELSE Success
    ELSE IF Len(fnType.in) = 2 THEN
        IF fnType.in[1].kind # "interface"
        THEN Errorf("1st input parameter should be an context.Context", fnType.in[1].kind)
        ELSE IF ~Implements(fnType.in[1], ContextType)
        THEN Errorf("1st input parameter should be context.Context", fnType.in[1].kind)
        ELSE IF fnType.in[2].kind # "struct"
        THEN Errorf("2nd input parameter should be a struct", fnType.in[2].kind)
        ELSE Success
    ELSE Errorf("should have 1 or 2 input parameters", "NumIn")

validateOutputs(fnType) ==
    IF Len(fnType.out) # 1
    THEN Errorf("should have 1 output parameter", "NumOut")
    ELSE IF fnType.out[1].kind # "interface"
    THEN Errorf("output parameter should be an error", fnType.out[1].kind)
    ELSE IF fnType.out[1].name # "error"
    THEN Errorf("output parameter should be an error", fnType.out[1].name)
    ELSE Success

validateHandler(fn) ==
    LET fnType == TypeOf(fn) IN
    IF fnType = NilType THEN NilDereference
    ELSE IF fnType.kind # "func"
    THEN Errorf("fn MessageHandler is not a function", fnType.kind)
    ELSE IF validateInputs(fnType) # Success THEN validateInputs(fnType)
    ELSE validateOutputs(fnType)

(***************************************************************************)
(* DispatchMux                                                             *)
(***************************************************************************)
\* handlers: the map field; nil until Handle makes it.
\* last: the latest call: its arguments, what the invoked handler returned
\*       (ret), what the call returned or panicked with, and the handler
\*       invocations it made.
\* accepted: the handlers whose Handle call returned normally.
VARIABLES handlers, last, accepted

vars == <<handlers, last, accepted>>

NilMap == [nil |-> TRUE, m |-> <<>>]

EmptyMap == [nil |-> FALSE, m |-> <<>>]

Registered(h, t) == ~h.nil /\ t \in DOMAIN h.m

Put(h, t, fn) == [nil |-> FALSE, m |-> (t :> fn) @@ h.m]

Call(o, f, c, msg, r, out, cs) ==
    [op |-> o, fn |-> f, ctx |-> c, msg |-> msg, ret |-> r, outcome |-> out,
     calls |-> cs]

\* NewDispatchMux: &DispatchMux{}.
Init ==
    /\ handlers = NilMap
    /\ last = Call("NewDispatchMux", NilValue, NilValue, NilValue, NilValue, Success, <<>>)
    /\ accepted = {}

\* The message type Handle reads from a validated handler's signature.
msgTypeOf(fnType) ==
    IF Len(fnType.in) = 1 THEN fnType.in[1] ELSE fnType.in[2]

\* Variant: the map made before the handler is validated.
HandleResult_MakeFirst(h, fn) ==
    LET err == validateHandler(fn)
        made == IF h.nil THEN EmptyMap ELSE h
    IN  IF err # Success
        THEN [outcome |-> IF err.kind = "panic" THEN err
                          ELSE Panic("msgmux", err.code, err.detail),
              handlers |-> made]
        ELSE IF Registered(made, msgTypeOf(TypeOf(fn)))
        THEN [outcome |-> Panic("msgmux", "already registered", msgTypeOf(TypeOf(fn)).name),
              handlers |-> made]
        ELSE [outcome |-> Success, handlers |-> Put(made, msgTypeOf(TypeOf(fn)), fn)]

\* Variant: the already-registered test left out, so that a later handler
\* replaces the earlier one.
HandleResult_NoDuplicateTest(h, fn) ==
    LET err == validateHandler(fn)
        made == IF h.nil THEN EmptyMap ELSE h
    IN  IF err # Success
        THEN [outcome |-> IF err.kind = "panic" THEN err
                          ELSE Panic("msgmux", err.code, err.detail),
              handlers |-> h]
        ELSE [outcome |-> Success, handlers |-> Put(made, msgTypeOf(TypeOf(fn)), fn)]

\* Handle's result: the outcome and the map it leaves.
HandleResult(h, fn) ==
    LET err == validateHandler(fn) IN
    IF err # Success
    THEN [outcome |-> IF err.kind = "panic" THEN err
                      ELSE Panic("msgmux", err.code, err.detail),
          handlers |-> h]
    ELSE
        LET made == IF h.nil THEN EmptyMap ELSE h
            fnType == TypeOf(fn)
        IN  IF Len(fnType.in) \notin {1, 2}
            THEN [outcome |-> Panic("msgmux", "invalid handler function signature", "fnType"),
                  handlers |-> made]
            ELSE IF Registered(made, msgTypeOf(fnType))
            THEN [outcome |-> Panic("msgmux", "already registered", msgTypeOf(fnType).name),
                  handlers |-> made]
            ELSE [outcome |-> Success,
                  handlers |-> Put(made, msgTypeOf(fnType), fn)]

Handle(fn) ==
    LET r == HandleResult(handlers, fn) IN
    /\ handlers' = r.handlers
    /\ accepted' = IF r.outcome = Success THEN accepted \cup {fn} ELSE accepted
    /\ last' = Call("Handle", fn, NilValue, NilValue, NilValue, r.outcome, <<>>)

(***************************************************************************)
(* invokeHandler and dispatch                                              *)
(***************************************************************************)
\* reflect.Value.Call's checks before the function runs: "" when they pass.
callCheck(handler, args) ==
    LET fnType == TypeOf(handler) IN
    IF IsNilFunc(handler)
    THEN "call of nil function"
    ELSE IF \E i \in 1..Len(args) : args[i] = NilValue
    THEN "Call using zero Value argument"
    ELSE IF \E i \in 1..Len(args) : ~AssignableTo(TypeOf(args[i]), fnType.in[i])
    THEN "Call using argument as another type"
    ELSE ""

\* ret: the value the handler returns if it is called.
invokeHandler(ctx, handler, msg, ret) ==
    LET fnType == TypeOf(handler)
        args == IF Len(fnType.in) = 1 THEN <<msg>> ELSE <<ctx, msg>>
    IN  IF Len(fnType.in) \notin {1, 2}
        THEN [outcome |-> Panic("msgmux", "invalid handler function signature", "fnType"),
              calls |-> <<>>]
        ELSE IF callCheck(handler, args) # ""
        THEN [outcome |-> Panic("reflect", callCheck(handler, args), ""), calls |-> <<>>]
        ELSE [outcome |->
                  IF ret = NilValue THEN Success
                  ELSE IF Implements(TypeOf(ret), ErrorType)
                  THEN Outcome("error", "handler", "", "", ret)
                  ELSE Panic("runtime", "interface conversion: not an error", ""),
              calls |-> <<[fn |-> handler, args |-> args]>>]

\* Variant: the nil-map test left out, so that a lookup in the nil map misses.
DispatchContextResult_NoNilTest(h, ctx, msg, ret) ==
    LET eventType == TypeOf(msg) IN
    IF eventType = NilType
    THEN [outcome |-> NilDereference, calls |-> <<>>]
    ELSE IF eventType.kind # "struct"
    THEN [outcome |-> Errorf("msg should be a struct", eventType.kind), calls |-> <<>>]
    ELSE IF eventType \notin DOMAIN h.m
    THEN [outcome |-> Errorf("no handler registered for message", eventType.name),
          calls |-> <<>>]
    ELSE invokeHandler(ctx, h.m[eventType], msg, ret)

\* Variant: a missed lookup treated like the nil map.
DispatchContextResult_MissIsNil(h, ctx, msg, ret) ==
    LET eventType == TypeOf(msg) IN
    IF eventType = NilType
    THEN [outcome |-> NilDereference, calls |-> <<>>]
    ELSE IF eventType.kind # "struct"
    THEN [outcome |-> Errorf("msg should be a struct", eventType.kind), calls |-> <<>>]
    ELSE IF h.nil \/ eventType \notin DOMAIN h.m
    THEN [outcome |-> Success, calls |-> <<>>]
    ELSE invokeHandler(ctx, h.m[eventType], msg, ret)

DispatchContextResult(h, ctx, msg, ret) ==
    LET eventType == TypeOf(msg) IN
    IF eventType = NilType
    THEN [outcome |-> NilDereference, calls |-> <<>>]
    ELSE IF eventType.kind # "struct"
    THEN [outcome |-> Errorf("msg should be a struct", eventType.kind), calls |-> <<>>]
    ELSE IF h.nil
    THEN [outcome |-> Success, calls |-> <<>>]
    ELSE IF eventType \notin DOMAIN h.m
    THEN [outcome |-> Errorf("no handler registered for message", eventType.name),
          calls |-> <<>>]
    ELSE invokeHandler(ctx, h.m[eventType], msg, ret)

\* The return values to choose from: those of the handler that will run.
RetChoices(h, ctx, msg) ==
    IF Registered(h, TypeOf(msg))
          /\ Len(DispatchContextResult(h, ctx, msg, NilValue).calls) = 1
    THEN Returns(h.m[TypeOf(msg)])
    ELSE {NilValue}

DispatchContext(ctx, msg, ret) ==
    LET r == DispatchContextResult(handlers, ctx, msg, ret) IN
    /\ last' = Call("DispatchContext", NilValue, ctx, msg, ret, r.outcome, r.calls)
    /\ UNCHANGED <<handlers, accepted>>

\* Dispatch: DispatchContext with context.Background().
Dispatch(msg, ret) ==
    LET r == DispatchContextResult(handlers, Background, msg, ret) IN
    /\ last' = Call("Dispatch", NilValue, Background, msg, ret, r.outcome, r.calls)
    /\ UNCHANGED <<handlers, accepted>>

Next ==
    \/ \E fn \in Candidates : Handle(fn)
    \/ \E ctx \in Contexts, msg \in Messages :
           \E ret \in RetChoices(handlers, ctx, msg) : DispatchContext(ctx, msg, ret)
    \/ \E msg \in Messages :
           \E ret \in RetChoices(handlers, Background, msg) : Dispatch(msg, ret)

Spec == Init /\ [][Next]_vars

(***************************************************************************)
(* Vocabulary of the properties                                            *)
(***************************************************************************)
IsDispatch == last.op \in {"Dispatch", "DispatchContext"}

\* The latest call dispatched a struct value.
DispatchedStruct == IsDispatch /\ TypeOf(last.msg).kind = "struct"

\* The record type a function value's signature names as its message.
HandledType(fn) == msgTypeOf(TypeOf(fn))

\* Some Handle call that returned normally registered a handler for t.
EverRegistered(t) == \E fn \in accepted : HandledType(fn) = t

IsBinary(fn) == Len(TypeOf(fn).in) = 2

\* What dispatch returns for a handler that returned ret.
Propagated(ret) ==
    IF ret = NilValue THEN Success ELSE Outcome("error", "handler", "", "", ret)

\* Handle's panic for a handler that failed validation.
ValidationPanic(out) == out.kind = "panic" /\ out.code # "already registered"

NotAContextCodes ==
    {"1st input parameter should be an context.Context",
     "1st input parameter should be context.Context"}

(***************************************************************************)
(* Properties                                                              *)
(***************************************************************************)
\* C2: once some handler has been registered (for any type) and none for T,
\* dispatching a T value returns the "no handler registered" error naming T,
\* as a return value, and invokes no handler.
C2_NoHandlerRegistered ==
    (DispatchedStruct /\ accepted # {} /\ ~EverRegistered(TypeOf(last.msg)))
        => /\ last.outcome =
                Errorf("no handler registered for message", TypeOf(last.msg).name)
           /\ last.calls = <<>>

C2_Witness ==
    /\ last.op = "Dispatch"
    /\ TypeOf(last.msg) = ShipOrder
    /\ accepted # {}
    /\ ~EverRegistered(ShipOrder)
    /\ last.outcome.kind = "error"
    /\ last.outcome.detail = "ShipOrder"

\* C3: while no Handle call has ever succeeded, every dispatch of a struct
\* value returns nil and invokes nothing, whatever calls came before.
C3_VacuousSuccess ==
    (DispatchedStruct /\ accepted = {})
        => (last.outcome = Success /\ last.calls = <<>>)

C3_Witness ==
    /\ last.op = "Dispatch"
    /\ TypeOf(last.msg) = OrderCompleted
    /\ accepted = {}
    /\ last.outcome = Success

C10_RejectedHandleChangesNothing ==
    [][/\ (last'.op = "Handle" /\ ValidationPanic(last'.outcome))
          => (handlers' = handlers /\ accepted' = accepted)
       /\ (handlers'.nil <=> accepted' = {})
       /\ (DispatchedStruct' /\ accepted' = {}) => (last'.outcome = Success)
      ]_vars

\* A rejected Handle call on a mux whose map is still nil.
C10_Witness ==
    /\ last.op = "Handle"
    /\ ValidationPanic(last.outcome)
    /\ last.outcome.origin = "msgmux"
    /\ handlers = NilMap
    /\ accepted = {}

\* A func value of two parameters, the second a struct, returning error.
TwoParameterShape(fn) ==
    /\ TypeOf(fn).kind = "func"
    /\ Len(TypeOf(fn).in) = 2
    /\ TypeOf(fn).in[2].kind = "struct"
    /\ TypeOf(fn).out = <<ErrorType>>

\* C8 as stated: such a handler passes validation exactly when its first
\* parameter's type implements context.Context, and is otherwise rejected
\* with the context-parameter error.
C8_AsStated ==
    (last.op = "Handle" /\ TwoParameterShape(last.fn))
        => IF Implements(TypeOf(last.fn).in[1], ContextType)
           THEN ~ValidationPanic(last.outcome)
           ELSE last.outcome.kind = "panic" /\ last.outcome.code \in NotAContextCodes

\* C8 amended: such a handler passes validation exactly when its first
\* parameter's type is an interface type that implements context.Context,
\* and is otherwise rejected with the context-parameter error.
C8_InterfaceImplementingContext ==
    (last.op = "Handle" /\ TwoParameterShape(last.fn))
        => IF /\ TypeOf(last.fn).in[1].kind = "interface"
              /\ Implements(TypeOf(last.fn).in[1], ContextType)
           THEN ~ValidationPanic(last.outcome)
           ELSE last.outcome.kind = "panic" /\ last.outcome.code \in NotAContextCodes

\* A handler accepted whose context parameter is not named Context.
C8_Witness ==
    /\ last.op = "Handle"
    /\ TwoParameterShape(last.fn)
    /\ TypeOf(last.fn).in[1] = ScopeType
    /\ last.outcome = Success

\* C1: once a handler H is registered for T, every Dispatch of a T value
\* invokes H once with that value, invokes nothing else, and returns what H
\* returned: nil for nil, H's error value itself for an error.
C1_DispatchInvokesHandler ==
    (last.op = "Dispatch" /\ DispatchedStruct /\ EverRegistered(TypeOf(last.msg)))
        => \E H \in accepted :
              /\ HandledType(H) = TypeOf(last.msg)
              /\ Len(last.calls) = 1
              /\ last.calls[1].fn = H
              /\ last.calls[1].args[Len(last.calls[1].args)] = last.msg
              /\ last.outcome = Propagated(last.ret)

\* The two documented handler forms: func(T) error and
\* func(context.Context, T) error, T a struct type.
Documented(fn) ==
    \E t \in StructTypes :
        TypeOf(fn) \in {FuncOf(<<t>>, <<ErrorType>>),
                        FuncOf(<<ContextType, t>>, <<ErrorType>>)}

\* The statement of C1 for non-nil functions of the two documented forms.
C1_DocumentedHandlers ==
    (/\ last.op = "Dispatch"
     /\ DispatchedStruct
     /\ \E H \in accepted :
           HandledType(H) = TypeOf(last.msg) /\ Documented(H) /\ ~IsNilFunc(H))
        => \E H \in accepted :
              /\ HandledType(H) = TypeOf(last.msg)
              /\ last.calls = <<[fn |-> H,
                                  args |-> IF IsBinary(H) THEN <<Background, last.msg>>
                                           ELSE <<last.msg>>]>>
              /\ last.outcome = Propagated(last.ret)

\* The candidates C5 lists: not a func; no parameter; more than two; a
\* message parameter that is not a struct; results other than one error.
IllFormed(fn) ==
    \/ TypeOf(fn).kind # "func"
    \/ Len(TypeOf(fn).in) = 0
    \/ Len(TypeOf(fn).in) > 2
    \/ HandledType(fn).kind # "struct"
    \/ TypeOf(fn).out # <<ErrorType>>

\* C5: Handle panics for every ill-formed candidate, and does not panic for
\* a handler of a documented form on a new mux.
C5_HandlePanicsOnIllFormed ==
    [][last'.op = "Handle"
          => /\ IllFormed(last'.fn) => last'.outcome.kind = "panic"
             /\ (Documented(last'.fn) /\ handlers = NilMap)
                   => last'.outcome = Success
      ]_vars

\* C6: dispatching a value whose type is not a struct (nil included) returns
\* the "msg should be a struct" error, in every state of the mux, without a
\* panic and without invoking a handler.
C6_NonStructIsAnError ==
    (IsDispatch /\ TypeOf(last.msg).kind # "struct")
        => /\ last.outcome.kind = "error"
           /\ last.outcome.code = "msg should be a struct"
           /\ last.calls = <<>>

\* The statement of C6 for the non-nil values.
C6_NonNilNonStruct ==
    (IsDispatch /\ TypeOf(last.msg).kind # "struct" /\ last.msg # NilValue)
        => /\ last.outcome = Errorf("msg should be a struct", TypeOf(last.msg).kind)
           /\ last.calls = <<>>

\* C7: a dispatch with a (non-nil) context invokes a binary handler with
\* that context and the message, a unary handler with the message alone;
\* Dispatch passes context.Background(); and but for the context passed,
\* DispatchContext with any context ends as Dispatch does.
C7_ContextPassedThrough ==
    /\ (DispatchedStruct /\ last.ctx # NilValue /\ EverRegistered(TypeOf(last.msg)))
          => \E H \in accepted :
                /\ HandledType(H) = TypeOf(last.msg)
                /\ last.calls = <<[fn |-> H,
                                    args |-> IF IsBinary(H) THEN <<last.ctx, last.msg>>
                                             ELSE <<last.msg>>]>>
    /\ last.op = "Dispatch" => last.ctx = Background
    /\ \A ctx \in Contexts \ {NilValue}, msg \in Messages,
          ret \in ReturnValues \cup {NilValue} :
            DispatchContextResult(handlers, ctx, msg, ret).outcome
                = DispatchContextResult(handlers, Background, msg, ret).outcome

\* C9: validation accepts a handler only if its one result type is the
\* error type itself, whatever the name of any other interface, so that
\* dispatch never panics converting a handler's result to an error.
C9_OnlyErrorResults ==
    /\ \A fn \in accepted : TypeOf(fn).out = <<ErrorType>>
    /\ (/\ last.op = "Handle"
        /\ TypeOf(last.fn).kind = "func"
        /\ Len(TypeOf(last.fn).out) = 1
        /\ TypeOf(last.fn).out[1] # ErrorType)
          => ValidationPanic(last.outcome)
    /\ IsDispatch => last.outcome.code # "interface conversion: not an error"

\* The statement of C9 for result types not named error.
C9_ResultsNamedOtherwise ==
    (/\ last.op = "Handle"
     /\ TypeOf(last.fn).kind = "func"
     /\ Len(TypeOf(last.fn).out) = 1
     /\ TypeOf(last.fn).out[1].name # "error")
        => ValidationPanic(last.outcome)

====
